---- MODULE Spec2Model ----
(***************************************************************************)
(* Model of the CanvasAutomateQuiz tools: the attempt classifier (report   *)
(* generator and build_user_grades), the gradebook patcher (update_csv),   *)
(* the column resolver (get_assignment_column), the mapping suggestion     *)
(* tool (suggest_mapping and its --write merge), the paginated fetcher    *)
(* (fetch_all_pages) and update_gradebook_csv.main, which runs the         *)
(* resolver, build_user_grades and the patcher in turn.  Each tool is a    *)
(* single-shot batch run, so each has its own specification; a             *)
(* specification keeps the variables of the other tools at their idle      *)
(* values.                                                                 *)
(***************************************************************************)
EXTENDS Integers, Sequences, FiniteSets, TLC

(* ------------------------------------------------------------------------ *)
(* Bounds                                                                   *)
(* ------------------------------------------------------------------------ *)
MaxSubs == 2
MaxEnroll == 2
UserIds == {1, 2}
Times == {0, 1, 2}

(* Python's None, for a user id or a timestamp *)
None == -1

(* Text (a header name, a cell, a grade) is a sequence of characters.      *)
(* Sequences over S of length at most n *)
SeqUpTo(S, n) == UNION {[1..k -> S] : k \in 0..n}

VARIABLES
  (* attempt classifier: generate_attempt_report.py, build_user_grades *)
  tool, cpc, quiz_due_at, due_dt, quiz_subs, enrollments, attempt_map,
  students, user_ids, idx, on_time, late, not_attempted, grades,
  (* gradebook patcher: update_csv and the files it reads and writes *)
  fs, fs_before, csv_path, out_arg, assignment_column, user_grades, ppc,
  rows, src_rows, id_col, assign_col, out_path, run, prev_out,
  (* column resolver: get_assignment_column and the two files it reads *)
  assignment_column_arg, meta_file, mapping_file, gpc, col,
  (* suggestion tool: suggest_mapping over a CSV header row *)
  csv_header, assignment_headers, quizzes, qn, spc, suggestions,
  (* suggestion tool: the --write merge into the mapping file *)
  write_flag, mapping_disk, backup_disk, mapping_before, mpc, existing, writes,
  (* paginated fetcher: fetch_all_pages and the server's pages *)
  pages, url, params, initial_params, all_data, all_users, requests, fpc,
  (* update_gradebook_csv.main: the token and what the server answers *)
  token, main_pc, quiz_response, submission_pages, enrollment_pages

classVars == <<tool, cpc, quiz_due_at, due_dt, quiz_subs, enrollments,
               attempt_map, students, user_ids, idx, on_time, late,
               not_attempted, grades>>
patchVars == <<fs, fs_before, csv_path, out_arg, assignment_column,
               user_grades, ppc, rows, src_rows, id_col, assign_col, out_path,
               run, prev_out>>

resolveVars == <<assignment_column_arg, meta_file, mapping_file, gpc, col>>
suggestLoopVars == <<csv_header, assignment_headers, quizzes, qn, spc>>
suggestVars == <<suggestLoopVars, suggestions>>
mergeVars == <<write_flag, mapping_disk, backup_disk, mapping_before, mpc,
               existing, writes>>
fetchVars == <<pages, url, params, initial_params, all_data, all_users,
               requests, fpc>>

mainVars == <<token, main_pc, quiz_response, submission_pages,
              enrollment_pages>>

vars == <<classVars, patchVars, resolveVars, suggestVars, mergeVars, fetchVars,
          mainVars>>
notClassVars == <<patchVars, resolveVars, suggestVars, mergeVars, fetchVars,
                  mainVars>>
notPatchVars == <<classVars, resolveVars, suggestVars, mergeVars, fetchVars,
                  mainVars>>
notResolveVars == <<classVars, patchVars, suggestVars, mergeVars, fetchVars,
                    mainVars>>
notSuggestVars == <<classVars, patchVars, resolveVars, mergeVars, fetchVars,
                    mainVars>>
(* the merge reads the suggestions and leaves them as they are *)
notMergeVars == <<classVars, patchVars, resolveVars, suggestVars, fetchVars,
                  mainVars>>
notFetchVars == <<classVars, patchVars, resolveVars, suggestVars, mergeVars,
                  mainVars>>
(* main drives the resolver and the patcher and leaves the rest alone *)
notMainVars == <<classVars, suggestVars, mergeVars, fetchVars>>

(* ------------------------------------------------------------------------ *)
(* Attempt classifier                                                       *)
(* ------------------------------------------------------------------------ *)
(* the on-time grade written without its decimals *)
GradeOnTimeBare == <<"1">>
GRADE_ON_TIME == <<"1", ".", "0", "0">>
GRADE_LATE_OR_NOT == <<"0", ".", "0", "0">>

(* A submission record of the API: user_id is always present, finished_at  *)
(* is null while the attempt is in progress.                                *)
Submissions == [user_id : UserIds, finished_at : Times \cup {None}]
(* An enrollment record: user is the user's id, None when the record       *)
(* carries no user object.                                                  *)
Enrollments == [user : UserIds \cup {None}]

(* attempt_map.get(uid) returning None *)
NoSub == [user_id |-> None, finished_at |-> None]

(* parse_ts: "Z" is replaced by "+00:00" and the ISO text parsed to an     *)
(* aware UTC instant (seconds here); None has no .replace and raises.      *)
parse_ts_raises(ts) == ts = None
parse_ts(ts) == ts

(* the lookup table that keeps the first record of a user *)
AttemptMapFirstWins(subs) ==
  [u \in UserIds \cup {None} |->
     LET I == {i \in 1..Len(subs) : subs[i].user_id = u}
     IN IF I = {} THEN NoSub
        ELSE subs[CHOOSE i \in I : \A j \in I : i <= j]]

(* {s["user_id"]: s for s in quiz_subs}: the last record of a user wins *)
AttemptMapOf(subs) ==
  [u \in UserIds \cup {None} |->
     LET I == {i \in 1..Len(subs) : subs[i].user_id = u}
     IN IF I = {} THEN NoSub
        ELSE subs[CHOOSE i \in I : \A j \in I : j <= i]]

(* students.append({"user_id": u.get("id"), ...}) for e in enrollments *)
StudentsOf(enr) == [i \in 1..Len(enr) |-> enr[i].user]

(* {e.get("user", {}).get("id") for e in enrollments if e.get("user")} *)
UserIdsOf(enr) == {enr[i].user : i \in {j \in 1..Len(enr) : enr[j].user # None}}

(* the comparison with the boundary on the wrong side *)
IsLateInclusive(finished_at, due) == finished_at >= due

(* finished_at > due_dt of the report generator *)
IsLate(finished_at, due) == finished_at > due

(* finished_at <= due_dt of build_user_grades *)
IsOnTime(finished_at, due) == finished_at <= due

(* the body of build_user_grades' loop for one uid *)
GradeOf(uid, amap, due) ==
  LET sub == amap[uid]
  IN IF sub = NoSub THEN GRADE_LATE_OR_NOT
     ELSE IF sub.finished_at = None THEN GRADE_LATE_OR_NOT
     ELSE IF IsOnTime(parse_ts(sub.finished_at), due) THEN GRADE_ON_TIME
     ELSE GRADE_LATE_OR_NOT

InitClassify ==
  /\ tool \in {"report", "grades"}
  /\ cpc = "fetch"
  /\ quiz_due_at \in Times \cup {None}
  /\ quiz_subs \in SeqUpTo(Submissions, MaxSubs)
  /\ enrollments \in SeqUpTo(Enrollments, MaxEnroll)
  /\ due_dt = None
  /\ attempt_map = [u \in UserIds \cup {None} |-> NoSub]
  /\ students = <<>>
  /\ user_ids = {}
  /\ idx = 1
  /\ on_time = <<>>
  /\ late = <<>>
  /\ not_attempted = <<>>
  /\ grades = <<>>

(* the classifier before any run: the state the other tools leave it in *)
IdleClassify ==
  /\ tool = "none" /\ cpc = "idle" /\ quiz_due_at = None /\ due_dt = None
  /\ quiz_subs = <<>> /\ enrollments = <<>>
  /\ attempt_map = [u \in UserIds \cup {None} |-> NoSub]
  /\ students = <<>> /\ user_ids = {} /\ idx = 1
  /\ on_time = <<>> /\ late = <<>> /\ not_attempted = <<>> /\ grades = <<>>

(* due_dt = parse_ts(quiz_due_at), after fetch_quiz_due_at *)
ParseDue ==
  /\ cpc = "fetch"
  /\ IF parse_ts_raises(quiz_due_at)
       THEN cpc' = "failed" /\ UNCHANGED due_dt
       ELSE cpc' = "lookup" /\ due_dt' = parse_ts(quiz_due_at)
  /\ UNCHANGED <<tool, quiz_due_at, quiz_subs, enrollments, attempt_map,
                 students, user_ids, idx, on_time, late, not_attempted, grades>>
  /\ UNCHANGED notClassVars

(* the lookup tables, after the submissions and the enrollments are fetched *)
BuildLookup ==
  /\ cpc = "lookup"
  /\ attempt_map' = AttemptMapOf(quiz_subs)
  /\ IF tool = "report"
       THEN students' = StudentsOf(enrollments) /\ UNCHANGED user_ids
       ELSE user_ids' = UserIdsOf(enrollments) /\ UNCHANGED students
  /\ cpc' = "classify"
  /\ UNCHANGED <<tool, quiz_due_at, due_dt, quiz_subs, enrollments, idx,
                 on_time, late, not_attempted, grades>>
  /\ UNCHANGED notClassVars

(* one iteration of the report generator's "for s in students" *)
ClassifyStudent ==
  /\ cpc = "classify" /\ tool = "report"
  /\ idx <= Len(students)
  /\ LET s == students[idx]
         sub == attempt_map[s]
         record == [user_id |-> s, finished_at |-> sub.finished_at]
     IN IF sub = NoSub
          THEN /\ not_attempted' = Append(not_attempted, record)
               /\ idx' = idx + 1
               /\ UNCHANGED <<cpc, on_time, late>>
        ELSE IF parse_ts_raises(sub.finished_at)
          THEN /\ cpc' = "failed"
               /\ UNCHANGED <<idx, on_time, late, not_attempted>>
        ELSE IF IsLate(parse_ts(sub.finished_at), due_dt)
          THEN /\ late' = Append(late, record)
               /\ idx' = idx + 1
               /\ UNCHANGED <<cpc, on_time, not_attempted>>
        ELSE /\ on_time' = Append(on_time, record)
             /\ idx' = idx + 1
             /\ UNCHANGED <<cpc, late, not_attempted>>
  /\ UNCHANGED <<tool, quiz_due_at, due_dt, quiz_subs, enrollments,
                 attempt_map, students, user_ids, grades>>
  /\ UNCHANGED notClassVars

(* the three report files are written after the loop *)
WriteReports ==
  /\ cpc = "classify" /\ tool = "report"
  /\ idx > Len(students)
  /\ cpc' = "done"
  /\ UNCHANGED <<tool, quiz_due_at, due_dt, quiz_subs, enrollments,
                 attempt_map, students, user_ids, idx, on_time, late,
                 not_attempted, grades>>
  /\ UNCHANGED notClassVars

(* build_user_grades' "for uid in user_ids" and its return *)
ComputeGrades ==
  /\ cpc = "classify" /\ tool = "grades"
  /\ grades' = [uid \in user_ids \ {None} |-> GradeOf(uid, attempt_map, due_dt)]
  /\ cpc' = "done"
  /\ UNCHANGED <<tool, quiz_due_at, due_dt, quiz_subs, enrollments,
                 attempt_map, students, user_ids, idx, on_time, late,
                 not_attempted>>
  /\ UNCHANGED notClassVars

NextClassify ==
  \/ ParseDue
  \/ BuildLookup
  \/ ClassifyStudent
  \/ WriteReports
  \/ ComputeGrades

(* ------------------------------------------------------------------------ *)
(* Gradebook patcher: update_csv                                            *)
(* ------------------------------------------------------------------------ *)
MaxDataRows == 2
ID_HEADER == <<"I", "D">>
(* range(3, len(rows)): the rows before index 3 are header and metadata *)
DATA_START == 3

Digits == {"0", "1", "2", "3", "4", "5", "6", "7", "8", "9"}
DigitVal(c) ==
  CASE c = "0" -> 0 [] c = "1" -> 1 [] c = "2" -> 2 [] c = "3" -> 3
    [] c = "4" -> 4 [] c = "5" -> 5 [] c = "6" -> 6 [] c = "7" -> 7
    [] c = "8" -> 8 [] c = "9" -> 9

(* str.strip() *)
RECURSIVE LStrip(_)
LStrip(s) == IF s # <<>> /\ Head(s) = " " THEN LStrip(Tail(s)) ELSE s
RECURSIVE RStrip(_)
RStrip(s) ==
  IF s # <<>> /\ s[Len(s)] = " " THEN RStrip(SubSeq(s, 1, Len(s) - 1)) ELSE s
Strip(s) == RStrip(LStrip(s))

(* int(text): an optional sign and decimal digits, anything else raises *)
IntBody(s) == IF s # <<>> /\ Head(s) \in {"+", "-"} THEN Tail(s) ELSE s
IntRaises(s) ==
  LET b == IntBody(Strip(s))
  IN b = <<>> \/ \E i \in 1..Len(b) : b[i] \notin Digits
RECURSIVE DecimalVal(_)
DecimalVal(b) ==
  IF b = <<>> THEN 0
  ELSE 10 * DecimalVal(SubSeq(b, 1, Len(b) - 1)) + DigitVal(b[Len(b)])
IntOf(s) ==
  LET t == Strip(s)
  IN IF t # <<>> /\ Head(t) = "-" THEN 0 - DecimalVal(IntBody(t))
     ELSE DecimalVal(IntBody(t))

(* raw_id = row[id_col].strip(); uid = int(raw_id) if raw_id else None,    *)
(* with ValueError caught: kind is "none", "error" or "int"                *)
ParseId(cell) ==
  LET raw_id == Strip(cell)
  IN IF raw_id = <<>> THEN [kind |-> "none", val |-> 0]
     ELSE IF IntRaises(raw_id) THEN [kind |-> "error", val |-> 0]
     ELSE [kind |-> "int", val |-> IntOf(raw_id)]

(* header.index(name): the first position holding name, counted from 1;    *)
(* 0 stands for ValueError                                                 *)
HeaderIndex(header, name) ==
  LET I == {i \in 1..Len(header) : header[i] = name}
  IN IF I = {} THEN 0 ELSE CHOOSE i \in I : \A j \in I : i <= j

Max(a, b) == IF a >= b THEN a ELSE b

(* the body of "for i in range(3, len(rows))" for one row; idc and ac are  *)
(* the columns' positions counted from 1                                   *)
UpdateRow(row, idc, ac, ug) ==
  IF Len(row) < Max(idc, ac) THEN row
  ELSE LET uid == ParseId(row[idc])
       IN IF uid.kind = "int" /\ uid.val \in DOMAIN ug
            THEN [row EXCEPT ![ac] = ug[uid.val]]
            ELSE row

(* the loop that starts at the first row *)
UpdateRowsFromHeader(rs, idc, ac, ug) ==
  [i \in 1..Len(rs) |-> UpdateRow(rs[i], idc, ac, ug)]

UpdateRows(rs, idc, ac, ug) ==
  [i \in 1..Len(rs) |-> IF i > DATA_START THEN UpdateRow(rs[i], idc, ac, ug)
                        ELSE rs[i]]

(* a path: the pieces of its stem and its extension *)
SrcPath == [stem |-> <<"Grades">>, ext |-> ".csv"]
OtherPath == [stem |-> <<"out">>, ext |-> ".csv"]
(* args.out when --out is not given *)
NoPath == [stem |-> <<>>, ext |-> ""]
(* csv_path.parent / f"{stem}-updated.csv" *)
DefaultOut(p) == [stem |-> Append(p.stem, "-updated"), ext |-> ".csv"]
AllPaths == {SrcPath, OtherPath, DefaultOut(SrcPath), DefaultOut(OtherPath),
             DefaultOut(DefaultOut(SrcPath))}
OutArgs == {NoPath, SrcPath, OtherPath}

(* a file: its rows as csv.reader yields them and its line terminator *)
NoFile == [exists |-> FALSE, rows |-> <<>>, eol |-> "none"]
(* csv.writer(f).writerow(row) for every row: the terminator is "\r\n" *)
WriteCsv(rs) == [exists |-> TRUE, rows |-> rs, eol |-> "CRLF"]

(* the exports the patcher is run on *)
QuizCol == <<"Q">>
NameCol == <<"N">>
Headers == {<<ID_HEADER, NameCol, QuizCol>>, <<QuizCol, ID_HEADER>>,
            <<ID_HEADER, QuizCol, QuizCol>>, <<NameCol, QuizCol>>,
            <<ID_HEADER, NameCol>>}
MetaRows == {<<<<"1">>, <<>>, <<"x">>>>, <<>>}
LastMetaRow == <<<<"1">>, <<"1">>, <<"1">>>>
DataRows == {<<<<" ", "1", " ">>, <<"a">>, <<>>>>,
             <<<<"2">>, <<>>, <<"x">>>>,
             <<<<>>, <<"1">>, <<"x">>>>,
             <<<<"x">>, <<"2">>, <<>>>>,
             <<<<"3">>, <<"a">>, <<>>>>,
             <<<<"+", "2">>, <<"1">>>>,
             <<<<"1">>>>}
FullExports ==
  {<<h, m, LastMetaRow>> \o d :
     h \in Headers, m \in MetaRows, d \in SeqUpTo(DataRows, MaxDataRows)}
(* an export may also be cut short: empty, or without its metadata rows *)
SourceRows ==
  FullExports \cup {SubSeq(f, 1, n) : f \in FullExports, n \in 0..2}
Targets == {QuizCol, ID_HEADER}
GradeValues == {GRADE_ON_TIME, GRADE_LATE_OR_NOT}
GradeMaps == {<<>>, (1 :> GRADE_ON_TIME), (1 :> GRADE_LATE_OR_NOT) @@ (2 :> GRADE_ON_TIME),
              (2 :> GRADE_LATE_OR_NOT)}

InitPatch ==
  /\ csv_path = SrcPath
  /\ \E r \in SourceRows, e \in {"LF", "CRLF"} :
       fs = [p \in AllPaths |->
               IF p = SrcPath THEN [exists |-> TRUE, rows |-> r, eol |-> e]
               ELSE NoFile]
  /\ fs_before = fs
  /\ out_arg \in OutArgs
  /\ assignment_column \in Targets
  /\ user_grades \in GradeMaps
  /\ ppc = "read"
  /\ rows = <<>> /\ src_rows = <<>>
  /\ id_col = 0 /\ assign_col = 0
  /\ out_path = NoPath
  /\ run = 1
  /\ prev_out = <<>>

IdlePatch ==
  /\ csv_path = NoPath
  /\ fs = [p \in AllPaths |-> NoFile]
  /\ fs_before = fs
  /\ out_arg = NoPath
  /\ assignment_column = <<>>
  /\ user_grades = <<>>
  /\ ppc = "idle"
  /\ rows = <<>> /\ src_rows = <<>>
  /\ id_col = 0 /\ assign_col = 0
  /\ out_path = NoPath
  /\ run = 1
  /\ prev_out = <<>>

(* rows = list(csv.reader(f)); "CSV is empty." when there is none *)
ReadCsv ==
  /\ ppc = "read"
  /\ rows' = fs[csv_path].rows
  /\ src_rows' = fs[csv_path].rows
  /\ ppc' = IF fs[csv_path].rows = <<>> THEN "failed" ELSE "locate"
  /\ UNCHANGED <<fs, fs_before, csv_path, out_arg, assignment_column,
                 user_grades, id_col, assign_col, out_path, run, prev_out>>
  /\ UNCHANGED notPatchVars

(* id_col = header.index(ID_HEADER); assign_col = header.index(column) *)
LocateColumns ==
  /\ ppc = "locate"
  /\ LET header == rows[1]
     IN IF HeaderIndex(header, ID_HEADER) = 0
          THEN ppc' = "failed" /\ UNCHANGED <<id_col, assign_col>>
        ELSE IF HeaderIndex(header, assignment_column) = 0
          THEN /\ ppc' = "failed"
               /\ id_col' = HeaderIndex(header, ID_HEADER)
               /\ UNCHANGED assign_col
        ELSE /\ ppc' = "patch"
             /\ id_col' = HeaderIndex(header, ID_HEADER)
             /\ assign_col' = HeaderIndex(header, assignment_column)
  /\ UNCHANGED <<fs, fs_before, csv_path, out_arg, assignment_column,
                 user_grades, rows, src_rows, out_path, run, prev_out>>
  /\ UNCHANGED notPatchVars

(* the loop over the data rows *)
PatchRows ==
  /\ ppc = "patch"
  /\ rows' = UpdateRows(rows, id_col, assign_col, user_grades)
  /\ ppc' = "write"
  /\ UNCHANGED <<fs, fs_before, csv_path, out_arg, assignment_column,
                 user_grades, src_rows, id_col, assign_col, out_path, run,
                 prev_out>>
  /\ UNCHANGED notPatchVars

(* the output path is the default unless --out is given *)
OutPathOf(arg, src) == IF arg = NoPath THEN DefaultOut(src) ELSE arg

(* open(out_path, "w") and the rows written; update_csv returns out_path *)
WriteOut ==
  /\ ppc = "write"
  /\ out_path' = OutPathOf(out_arg, csv_path)
  /\ fs' = [fs EXCEPT ![out_path'] = WriteCsv(rows)]
  /\ ppc' = "done"
  /\ UNCHANGED <<fs_before, csv_path, out_arg, assignment_column, user_grades,
                 rows, src_rows, id_col, assign_col, run, prev_out>>
  /\ UNCHANGED notPatchVars

(* the tool is run once more, on the file it has just written, with the    *)
(* same column and grade map                                               *)
RunAgain ==
  /\ ppc = "done" /\ run = 1
  /\ run' = 2
  /\ csv_path' = out_path
  /\ out_arg' = NoPath
  /\ prev_out' = fs[out_path].rows
  /\ fs_before' = fs
  /\ ppc' = "read"
  /\ rows' = <<>> /\ src_rows' = <<>>
  /\ id_col' = 0 /\ assign_col' = 0
  /\ out_path' = NoPath
  /\ UNCHANGED <<fs, assignment_column, user_grades>>
  /\ UNCHANGED notPatchVars

NextPatch ==
  \/ ReadCsv
  \/ LocateColumns
  \/ PatchRows
  \/ WriteOut
  \/ RunAgain

(* ------------------------------------------------------------------------ *)
(* Column resolver: get_assignment_column                                   *)
(* ------------------------------------------------------------------------ *)
MaxMeta == 2

(* Python's None where a text is expected: a token that is no character *)
NoneText == <<"None">>
(* "if x:" for a text or None *)
Truthy(t) == t # NoneText /\ t # <<>>

(* an identifier as JSON holds it, a number or a string, and str() of it *)
IdInt(t) == [type |-> "int", text |-> t]
IdStr(t) == [type |-> "str", text |-> t]
Str(v) == v.text

(* the course and the quiz the tool is run for: command-line strings *)
CourseArg == IdStr(<<"7">>)
QuizArg == IdStr(<<"1">>)

ColArg == <<"A">>
ColMeta == <<"M">>
ColMeta2 == <<"M", "2">>
ColMap == <<"P">>

(* the entries of the metadata index; gradebook_column is NoneText when    *)
(* the quiz has no linked assignment                                       *)
MetaEntries ==
  [course_id : {IdStr(<<"7">>), IdStr(<<"8">>)},
   quiz_id : {IdInt(<<"1">>), IdStr(<<"1">>), IdInt(<<"2">>)},
   gradebook_column : {NoneText, <<>>, ColMeta, ColMeta2}]
NoMetaFile == [exists |-> FALSE, quiz_list |-> <<>>]
MetaFiles ==
  {NoMetaFile} \cup
  {[exists |-> TRUE, quiz_list |-> l] : l \in SeqUpTo(MetaEntries, MaxMeta)}

(* the manual mapping: course id -> quiz id -> column, keys are strings *)
NoMappingFile == [exists |-> FALSE, mapping |-> <<>>]
Mappings ==
  {<<>>,
   (<<"7">> :> <<>>),
   (<<"7">> :> (<<"1">> :> ColMap)),
   (<<"7">> :> (<<"1">> :> <<>>)),
   (<<"7">> :> (<<"2">> :> ColMap)),
   (<<"8">> :> (<<"1">> :> ColMap))}
MappingFiles ==
  {NoMappingFile} \cup {[exists |-> TRUE, mapping |-> m] : m \in Mappings}

(* dict.get(key): the value, or None; an empty dict and None are both      *)
(* falsy and stand as <<>>; a missing text is NoneText                     *)
GetDict(d, key) == IF key \in DOMAIN d THEN d[key] ELSE <<>>
GetText(d, key) == IF key \in DOMAIN d THEN d[key] ELSE NoneText

(* an index entry for the course and the quiz the tool is run for *)
EntryMatches(q, cid, qid) == Str(q.course_id) = cid /\ Str(q.quiz_id) = qid

(* the scan that goes on after an entry without a column *)
MetaLookupAnyEntry(quiz_list, cid, qid) ==
  LET I == {i \in 1..Len(quiz_list) :
              /\ EntryMatches(quiz_list[i], cid, qid)
              /\ Truthy(quiz_list[i].gradebook_column)}
  IN IF I = {} THEN NoneText
     ELSE quiz_list[CHOOSE i \in I : \A j \in I : i <= j].gradebook_column

(* "for q in quiz_list": the first entry for (cid, qid) decides, the loop  *)
(* breaks after it; NoneText when the scan returns no column               *)
MetaLookup(quiz_list, cid, qid) ==
  LET I == {i \in 1..Len(quiz_list) : EntryMatches(quiz_list[i], cid, qid)}
  IN IF I = {} THEN NoneText
     ELSE LET c == quiz_list[CHOOSE i \in I : \A j \in I : i <= j].gradebook_column
          IN IF Truthy(c) THEN c ELSE NoneText

(* mapping.get(cid), then by_course.get(qid) *)
MappingLookup(mapping, cid, qid) ==
  LET by_course == GetDict(mapping, cid)
  IN IF by_course = <<>> THEN NoneText
     ELSE LET c == GetText(by_course, qid)
          IN IF Truthy(c) THEN c ELSE NoneText

InitResolve ==
  /\ assignment_column_arg \in {NoneText, <<>>, ColArg}
  /\ meta_file \in MetaFiles
  /\ mapping_file \in MappingFiles
  /\ gpc = "arg"
  /\ col = NoneText

IdleResolve ==
  /\ assignment_column_arg = NoneText
  /\ meta_file = NoMetaFile
  /\ mapping_file = NoMappingFile
  /\ gpc = "idle"
  /\ col = NoneText

(* if assignment_column_arg: return assignment_column_arg *)
CheckArg ==
  /\ gpc = "arg"
  /\ IF Truthy(assignment_column_arg)
       THEN gpc' = "returned" /\ col' = assignment_column_arg
       ELSE gpc' = "metadata" /\ UNCHANGED col
  /\ UNCHANGED <<assignment_column_arg, meta_file, mapping_file>>
  /\ UNCHANGED notResolveVars

(* 1) the metadata file, when it exists *)
ReadMetadata ==
  /\ gpc = "metadata"
  /\ LET c == IF meta_file.exists
                THEN MetaLookup(meta_file.quiz_list, Str(CourseArg), Str(QuizArg))
                ELSE NoneText
     IN IF c # NoneText
          THEN gpc' = "returned" /\ col' = c
          ELSE gpc' = "mapping" /\ UNCHANGED col
  /\ UNCHANGED <<assignment_column_arg, meta_file, mapping_file>>
  /\ UNCHANGED notResolveVars

(* 2) the manual mapping file, when it exists; SystemExit otherwise *)
ReadMapping ==
  /\ gpc = "mapping"
  /\ LET c == IF mapping_file.exists
                THEN MappingLookup(mapping_file.mapping, Str(CourseArg), Str(QuizArg))
                ELSE NoneText
     IN IF c # NoneText
          THEN gpc' = "returned" /\ col' = c
          ELSE gpc' = "exit" /\ UNCHANGED col
  /\ UNCHANGED <<assignment_column_arg, meta_file, mapping_file>>
  /\ UNCHANGED notResolveVars

NextResolve ==
  \/ CheckArg
  \/ ReadMetadata
  \/ ReadMapping

(* ------------------------------------------------------------------------ *)
(* Suggestion tool: assignment_columns_from_csv, normalize, suggest_mapping *)
(* ------------------------------------------------------------------------ *)
MaxHeaders == 3
MaxQuizzes == 2
(* norm_title[:10], norm_header[:10] *)
PREFIX_LEN == 10
(* \d{5,} *)
MIN_ID_DIGITS == 5

UpperCase == {"A", "B", "C", "D", "E", "F", "G", "H", "I", "J", "K", "L", "M",
              "N", "O", "P", "Q", "R", "S", "T", "U", "V", "W", "X", "Y", "Z"}
LowerCase == {"a", "b", "c", "d", "e", "f", "g", "h", "i", "j", "k", "l", "m",
              "n", "o", "p", "q", "r", "s", "t", "u", "v", "w", "x", "y", "z"}
(* str.lower() of one character *)
Lower(c) ==
  CASE c = "A" -> "a" [] c = "B" -> "b" [] c = "C" -> "c" [] c = "D" -> "d"
    [] c = "E" -> "e" [] c = "F" -> "f" [] c = "G" -> "g" [] c = "H" -> "h"
    [] c = "I" -> "i" [] c = "J" -> "j" [] c = "K" -> "k" [] c = "L" -> "l"
    [] c = "M" -> "m" [] c = "N" -> "n" [] c = "O" -> "o" [] c = "P" -> "p"
    [] c = "Q" -> "q" [] c = "R" -> "r" [] c = "S" -> "s" [] c = "T" -> "t"
    [] c = "U" -> "u" [] c = "V" -> "v" [] c = "W" -> "w" [] c = "X" -> "x"
    [] c = "Y" -> "y" [] c = "Z" -> "z"
    [] OTHER -> c
(* \w without the underscore, which the first substitution removes *)
IsWordChar(c) == c \in UpperCase \cup LowerCase \cup Digits

(* normalize: lower().strip(), then whitespace, "-" and "_" runs removed,  *)
(* then every remaining non-word character removed                         *)
RECURSIVE Normalize(_)
Normalize(s) ==
  IF s = <<>> THEN <<>>
  ELSE IF IsWordChar(Head(s)) THEN <<Lower(Head(s))>> \o Normalize(Tail(s))
  ELSE Normalize(Tail(s))

(* Python's "a in b" for texts *)
IsSubstring(a, b) ==
  \E k \in 0..(Len(b) - Len(a)) : SubSeq(b, k + 1, k + Len(a)) = a
(* s[:n] *)
Prefix(s, n) == SubSeq(s, 1, IF Len(s) < n THEN Len(s) ELSE n)

(* the number of digits that end the text *)
RECURSIVE TrailingDigits(_)
TrailingDigits(s) ==
  IF s # <<>> /\ s[Len(s)] \in Digits
    THEN 1 + TrailingDigits(SubSeq(s, 1, Len(s) - 1))
    ELSE 0
(* re.search(r"\(\d{5,}\)$", cell) *)
EndsWithId(cell) ==
  /\ cell # <<>> /\ cell[Len(cell)] = ")"
  /\ LET body == SubSeq(cell, 1, Len(cell) - 1)
         n == TrailingDigits(body)
     IN /\ n >= MIN_ID_DIGITS
        /\ Len(body) > n
        /\ body[Len(body) - n] = "("

(* assignment_columns_from_csv: (column index, stripped header) of the     *)
(* cells that look like assignment columns, in row order                   *)
RECURSIVE AssignmentColumns(_, _)
AssignmentColumns(row, i) ==
  IF i > Len(row) THEN <<>>
  ELSE LET cell == Strip(row[i])
       IN IF cell # <<>> /\ EndsWithId(cell)
            THEN <<[index |-> i - 1, header |-> cell]>> \o AssignmentColumns(row, i + 1)
            ELSE AssignmentColumns(row, i + 1)

(* the two branches of the match in suggest_mapping *)
SubstringMatch(norm_title, norm_header) ==
  IsSubstring(norm_title, norm_header) \/ IsSubstring(norm_header, norm_title)
PrefixMatch(norm_title, norm_header) ==
  /\ norm_title # <<>> /\ norm_header # <<>>
  /\ \/ IsSubstring(Prefix(norm_title, PREFIX_LEN), norm_header)
     \/ IsSubstring(Prefix(norm_header, PREFIX_LEN), norm_title)
HeaderMatches(title, header) ==
  LET norm_title == Normalize(title)
      norm_header == Normalize(header)
  IN SubstringMatch(norm_title, norm_header) \/ PrefixMatch(norm_title, norm_header)

(* the update of best that also takes a header of equal length *)
TakeBestOrEqual(best, header) == IF Len(header) >= Len(best) THEN header ELSE best

(* if len(header) > best_len: best = header; best_len = len(header) *)
TakeBest(best, header) == IF Len(header) > Len(best) THEN header ELSE best

(* "for _, header in assignment_headers" from position i on; best is <<>>  *)
(* (None, with best_len 0) before the first match                          *)
RECURSIVE BestHeader(_, _, _, _)
BestHeader(headers, title, i, best) ==
  IF i > Len(headers) THEN best
  ELSE BestHeader(headers, title, i + 1,
                  IF HeaderMatches(title, headers[i].header)
                    THEN TakeBest(best, headers[i].header)
                    ELSE best)

(* (q.get("quiz_title") or "").strip() *)
TitleOf(q) == IF q.quiz_title = NoneText THEN <<>> ELSE Strip(q.quiz_title)

(* the header cells and quiz titles the tool is run on *)
HeaderCells == {
  <<"E", "R", "D", "i", "a", "g", "r", "a", "m", " ", "Q", "u", "i", "z", "z", " ", "(", "7", "1", "7", "6", "7", "1", "4", ")">>,
  <<"S", "Q", "L", " ", "Q", "u", "i", "z", " ", "A", " ", "(", "1", "2", "3", "4", "5", ")">>,
  <<"S", "Q", "L", "-", "Q", "u", "i", "z", " ", "B", " ", "(", "1", "2", "3", "4", "6", ")">>,
  <<"R", "e", "l", "a", "t", "i", "o", "n", "a", "l", " ", "A", "l", "g", "e", "b", "r", "a", " ", "(", "5", "5", "5", "5", "5", ")">>,
  <<" ", "N", "o", "t", "e", "s", " ", "(", "1", "2", "3", ")">>}
Titles == {
  NoneText,
  <<"E", "R", " ", "D", "i", "a", "g", "r", "a", "m", " ", "Q", "u", "i", "z">>,
  <<"S", "Q", "L", " ", "Q", "u", "i", "z">>,
  <<"R", "e", "l", "a", "t", "i", "o", "n", "a", "l", " ", "M", "o", "d", "e", "l">>}
InitSuggest ==
  /\ csv_header \in SeqUpTo(HeaderCells, MaxHeaders) \ {<<>>}
  (* the quizzes of the course, each with its own quiz id *)
  /\ quizzes \in {[i \in 1..Len(t) |-> [quiz_id |-> i, quiz_title |-> t[i]]] :
                    t \in SeqUpTo(Titles, MaxQuizzes)}
  /\ assignment_headers = <<>>
  /\ qn = 1
  /\ spc = "headers"
  /\ suggestions = <<>>

IdleSuggestLoop ==
  /\ csv_header = <<>> /\ quizzes = <<>> /\ assignment_headers = <<>>
  /\ qn = 1 /\ spc = "idle"
IdleSuggest == IdleSuggestLoop /\ suggestions = <<>>

(* assignment_headers = assignment_columns_from_csv(args.csv_path) *)
ReadHeaders ==
  /\ spc = "headers"
  /\ assignment_headers' = AssignmentColumns(csv_header, 1)
  /\ spc' = "suggest"
  /\ UNCHANGED <<csv_header, quizzes, qn, suggestions>>
  /\ UNCHANGED notSuggestVars

(* one iteration of "for q in quizzes" in suggest_mapping *)
SuggestQuiz ==
  /\ spc = "suggest" /\ qn <= Len(quizzes)
  /\ LET q == quizzes[qn]
         best == BestHeader(assignment_headers, TitleOf(q), 1, <<>>)
     IN suggestions' = IF best # <<>>
                         THEN [k \in DOMAIN suggestions \cup {q.quiz_id} |->
                                 IF k = q.quiz_id THEN best ELSE suggestions[k]]
                         ELSE suggestions
  /\ qn' = qn + 1
  /\ UNCHANGED <<csv_header, assignment_headers, quizzes, spc>>
  /\ UNCHANGED notSuggestVars

(* return suggestions *)
ReturnSuggestions ==
  /\ spc = "suggest" /\ qn > Len(quizzes)
  /\ spc' = "done"
  /\ UNCHANGED <<csv_header, assignment_headers, quizzes, qn, suggestions>>
  /\ UNCHANGED notSuggestVars

NextSuggest ==
  \/ ReadHeaders
  \/ SuggestQuiz
  \/ ReturnSuggestions

(* ------------------------------------------------------------------------ *)
(* Suggestion tool: main's merge into quiz_gradebook_columns.json (--write) *)
(* ------------------------------------------------------------------------ *)
(* a JSON file: the value json.load reads from it and the layout of its    *)
(* text, "indent2" when the text is what json.dump(value, indent=2) writes *)
NoJsonFile == [exists |-> FALSE, value |-> <<>>, layout |-> "none"]
JsonLoad(file) == file.value
JsonDump(value) == [exists |-> TRUE, value |-> value, layout |-> "indent2"]

OldCol == <<"O">>
NewColA == <<"A">>
NewColB == <<"B">>
(* args.course_id *)
MergeCourse == <<"7">>
MergeSuggestions ==
  {<<>>, (<<"1">> :> NewColA), (<<"1">> :> NewColA) @@ (<<"2">> :> NewColB)}
MappingValues ==
  {<<>>,
   (<<"7">> :> (<<"1">> :> OldCol)),
   (<<"7">> :> (<<"3">> :> OldCol)),
   (<<"8">> :> (<<"1">> :> OldCol))}
MappingDisks ==
  {NoJsonFile} \cup
  {[exists |-> TRUE, value |-> v, layout |-> l] :
     v \in MappingValues, l \in {"indent2", "compact"}}

(* by_course = existing.get(course_id, {}); by_course[qid] = col for every *)
(* suggestion; existing[course_id] = by_course                             *)
MergeInto(ex, course, sugg) ==
  LET by_course == GetDict(ex, course)
      merged == [q \in DOMAIN by_course \cup DOMAIN sugg |->
                   IF q \in DOMAIN sugg THEN sugg[q] ELSE by_course[q]]
  IN [c \in DOMAIN ex \cup {course} |-> IF c = course THEN merged ELSE ex[c]]

InitMerge ==
  /\ write_flag \in BOOLEAN
  /\ suggestions \in MergeSuggestions
  /\ mapping_disk \in MappingDisks
  /\ backup_disk \in {NoJsonFile, JsonDump(<<"8">> :> (<<"1">> :> OldCol))}
  /\ mapping_before = mapping_disk
  /\ mpc = "print"
  /\ existing = <<>>
  /\ writes = <<>>

IdleMerge ==
  /\ write_flag = FALSE
  /\ mapping_disk = NoJsonFile /\ backup_disk = NoJsonFile
  /\ mapping_before = NoJsonFile
  /\ mpc = "idle" /\ existing = <<>> /\ writes = <<>>

(* the suggestions are printed; "if args.write and suggestions:" *)
PrintSuggestions ==
  /\ mpc = "print"
  /\ mpc' = IF write_flag /\ suggestions # <<>> THEN "load" ELSE "done"
  /\ UNCHANGED <<write_flag, mapping_disk, backup_disk, mapping_before,
                 existing, writes>>
  /\ UNCHANGED notMergeVars

(* existing = {}; if path.exists(): existing = json.load(f) *)
LoadExisting ==
  /\ mpc = "load"
  /\ IF mapping_disk.exists
       THEN existing' = JsonLoad(mapping_disk) /\ mpc' = "backup"
       ELSE existing' = <<>> /\ mpc' = "merge"
  /\ UNCHANGED <<write_flag, mapping_disk, backup_disk, mapping_before, writes>>
  /\ UNCHANGED notMergeVars

(* json.dump(existing, f, indent=2) into <stem>.backup.json *)
WriteBackup ==
  /\ mpc = "backup"
  /\ backup_disk' = JsonDump(existing)
  /\ writes' = Append(writes, "backup")
  /\ mpc' = "merge"
  /\ UNCHANGED <<write_flag, mapping_disk, mapping_before, existing>>
  /\ UNCHANGED notMergeVars

(* the merge per course and json.dump(existing, f, indent=2) into the file *)
WriteMapping ==
  /\ mpc = "merge"
  /\ existing' = MergeInto(existing, MergeCourse, suggestions)
  /\ mapping_disk' = JsonDump(existing')
  /\ writes' = Append(writes, "mapping")
  /\ mpc' = "done"
  /\ UNCHANGED <<write_flag, backup_disk, mapping_before>>
  /\ UNCHANGED notMergeVars

NextMerge ==
  \/ PrintSuggestions
  \/ LoadExisting
  \/ WriteBackup
  \/ WriteMapping

(* ------------------------------------------------------------------------ *)
(* Paginated fetcher: fetch_all_pages                                       *)
(* ------------------------------------------------------------------------ *)
MaxPages == 3

(* a URL is the number of the page it names; None ends the loop *)
NoUrl == 0
(* the params argument: the caller's dict, or None *)
NoParams == "None"
InitialParams == "include[]=user&per_page=100"

(* one part of a Link header: <url>; rel="..." *)
LinkPart(u, r) == [url |-> u, rel |-> r]
(* the Link headers of page i: without a next link, and with one *)
LastLinks(i) ==
  {[present |-> FALSE, parts |-> <<>>],
   [present |-> TRUE, parts |-> <<LinkPart(i, "current")>>],
   [present |-> TRUE, parts |-> <<LinkPart(1, "first"), LinkPart(i, "last")>>]}
NextLinks(i) ==
  {[present |-> TRUE, parts |-> <<LinkPart(i + 1, "next")>>],
   [present |-> TRUE, parts |-> <<LinkPart(i, "current"), LinkPart(i + 1, "next")>>],
   [present |-> TRUE, parts |-> <<LinkPart(i + 1, "next"), LinkPart(1, "first")>>]}
(* the decoded bodies of page i: a plain list, or the composite shape with *)
(* quiz_submissions and users                                              *)
Bodies(i) ==
  {[shape |-> "list", entities |-> <<>>, users |-> <<>>],
   [shape |-> "list", entities |-> <<10 * i + 1, 10 * i + 2>>, users |-> <<>>],
   [shape |-> "composite", entities |-> <<10 * i + 3>>, users |-> <<7, i>>]}
Responses(i, last) ==
  [body : Bodies(i),
   link : IF last THEN LastLinks(i) ELSE LastLinks(i) \cup NextLinks(i)]
(* the server's pages: every next link names the page after its own, and   *)
(* the last page has none                                                  *)
PageChains ==
  UNION {{c \in [1..n -> UNION {Responses(i, FALSE) : i \in 1..n}] :
            /\ \A i \in 1..n : c[i] \in Responses(i, i = n)} :
         n \in 1..MaxPages}

(* the loop over link_header.split(","): the URL between "<" and ">" of    *)
(* the last part that holds rel="next", None when there is none            *)
RECURSIVE NextFrom(_, _, _)
NextFrom(parts, i, found) ==
  IF i > Len(parts) THEN found
  ELSE NextFrom(parts, i + 1, IF parts[i].rel = "next" THEN parts[i].url ELSE found)
NextUrl(link) == IF link.present THEN NextFrom(link.parts, 1, NoUrl) ELSE NoUrl

(* all_users[u["id"]] = u for the users of a composite body *)
AddUsers(known, body) ==
  IF body.shape = "composite"
    THEN known \cup {body.users[i] : i \in 1..Len(body.users)}
    ELSE known

(* the params of every request after the first, left as they were *)
KeepParams(p) == p
(* params = None  # params only on first request *)
ParamsAfterRequest(p) == NoParams

InitFetch ==
  /\ pages \in PageChains
  /\ url = 1
  /\ params \in {InitialParams, NoParams}
  /\ initial_params = params
  /\ all_data = <<>>
  /\ all_users = {}
  /\ requests = <<>>
  /\ fpc = "loop"

IdleFetch ==
  /\ pages = <<>> /\ url = NoUrl /\ params = NoParams
  /\ initial_params = NoParams
  /\ all_data = <<>> /\ all_users = {} /\ requests = <<>> /\ fpc = "idle"

(* one iteration of "while url": the request, the body appended, the next  *)
(* link followed                                                           *)
RequestPage ==
  /\ fpc = "loop" /\ url # NoUrl
  /\ LET resp == pages[url]
     IN /\ requests' = Append(requests, [url |-> url, params |-> params])
        /\ all_data' = all_data \o resp.body.entities
        /\ all_users' = AddUsers(all_users, resp.body)
        /\ url' = NextUrl(resp.link)
        /\ params' = ParamsAfterRequest(params)
  /\ UNCHANGED <<pages, initial_params, fpc>>
  /\ UNCHANGED notFetchVars

(* return all_data, list(all_users.values()) *)
ReturnPages ==
  /\ fpc = "loop" /\ url = NoUrl
  /\ fpc' = "done"
  /\ UNCHANGED <<pages, url, params, initial_params, all_data, all_users,
                 requests>>
  /\ UNCHANGED notFetchVars

NextFetch ==
  \/ RequestPage
  \/ ReturnPages

(* ------------------------------------------------------------------------ *)
(* update_gradebook_csv.main: token, column, grades, update_csv             *)
(* ------------------------------------------------------------------------ *)
(* os.environ.get("CANVAS_API_TOKEN"): unset, empty, or a token *)
Tokens == {NoneText, <<>>, <<"t">>}
(* if not token: raise SystemExit *)
TokenMissing(t) == ~Truthy(t)

(* the answer to GET .../quizzes/<id>: a non-2xx status, or the quiz with  *)
(* its due_at, None when the quiz has no due date                          *)
NoQuizResponse == [status |-> "none", due_at |-> None]
QuizResponses ==
  {[status |-> "error", due_at |-> None],
   [status |-> "ok", due_at |-> None],
   [status |-> "ok", due_at |-> 1]}

(* a page of a listing: its status, its decoded body and its Link header *)
Page(st, sh, ents, nxt) ==
  [status |-> st,
   body |-> [shape |-> sh, entities |-> ents, users |-> <<>>],
   link |-> IF nxt = NoUrl THEN [present |-> FALSE, parts |-> <<>>]
            ELSE [present |-> TRUE, parts |-> <<LinkPart(nxt, "next")>>]]
Sub(u, t) == [user_id |-> u, finished_at |-> t]
Enr(u) == [user |-> u]
(* the submission listings the server may answer with: one page, two       *)
(* pages, a second page with a non-2xx status, a body of another shape     *)
SubmissionChains ==
  {<<Page("ok", "composite", <<Sub(1, 0)>>, NoUrl)>>,
   <<Page("ok", "composite", <<Sub(1, 2)>>, 2),
     Page("ok", "composite", <<Sub(2, None)>>, NoUrl)>>,
   <<Page("ok", "composite", <<Sub(1, 0)>>, 2),
     Page("error", "other", <<>>, NoUrl)>>,
   <<Page("ok", "other", <<>>, NoUrl)>>}
(* the enrollment listings: a list, a failing second page, a body that is  *)
(* the object {} and a body that is an object with keys                    *)
EnrollmentChains ==
  {<<Page("ok", "list", <<Enr(1), Enr(2)>>, NoUrl)>>,
   <<Page("ok", "list", <<Enr(1)>>, 2),
     Page("error", "other", <<>>, NoUrl)>>,
   <<Page("ok", "empty_object", <<>>, NoUrl)>>,
   <<Page("ok", "object", <<>>, NoUrl)>>}

(* fetch_all_pages as a function of the server's pages: raise_for_status,  *)
(* the two shapes, ValueError for any other, the next link followed        *)
RECURSIVE FetchFrom(_, _, _)
FetchFrom(chain, u, acc) ==
  IF u = NoUrl THEN [raised |-> FALSE, data |-> acc]
  ELSE IF chain[u].status # "ok" THEN [raised |-> TRUE, data |-> <<>>]
  ELSE IF chain[u].body.shape \notin {"list", "composite"}
    THEN [raised |-> TRUE, data |-> <<>>]
  ELSE FetchFrom(chain, NextUrl(chain[u].link), acc \o chain[u].body.entities)
FetchAllPages(chain) == FetchFrom(chain, 1, <<>>)

(* fetch_all_enrollments: raise_for_status and all_enrollments.extend(data) *)
(* with no test of the shape: an object adds its keys, {} adds nothing;     *)
(* a key is a str and e.get raises on it when user_ids is built             *)
RECURSIVE EnrollFrom(_, _, _)
EnrollFrom(chain, u, acc) ==
  IF u = NoUrl THEN [raised |-> FALSE, data |-> acc]
  ELSE IF chain[u].status # "ok" THEN [raised |-> TRUE, data |-> <<>>]
  ELSE IF chain[u].body.shape = "object" THEN [raised |-> TRUE, data |-> <<>>]
  ELSE EnrollFrom(chain, NextUrl(chain[u].link), acc \o chain[u].body.entities)
FetchAllEnrollments(chain) == EnrollFrom(chain, 1, <<>>)

(* build_user_grades: the grade map, or the exception it ends in *)
BuildUserGrades(quiz, subs, enrs) ==
  IF quiz.status # "ok" THEN [raised |-> TRUE, grades |-> <<>>]
  ELSE IF parse_ts_raises(quiz.due_at) THEN [raised |-> TRUE, grades |-> <<>>]
  ELSE IF FetchAllPages(subs).raised THEN [raised |-> TRUE, grades |-> <<>>]
  ELSE IF FetchAllEnrollments(enrs).raised THEN [raised |-> TRUE, grades |-> <<>>]
  ELSE LET amap == AttemptMapOf(FetchAllPages(subs).data)
           uids == UserIdsOf(FetchAllEnrollments(enrs).data)
       IN [raised |-> FALSE,
           grades |-> [uid \in uids \ {None} |->
                         GradeOf(uid, amap, parse_ts(quiz.due_at))]]

(* the exports main is run on: empty, without the ID column, without the   *)
(* quiz column, and complete                                               *)
MainExports ==
  {<<>>,
   <<<<NameCol, QuizCol>>, <<>>, LastMetaRow, <<<<"1">>, <<>>>>>>,
   <<<<ID_HEADER, NameCol>>, <<>>, LastMetaRow, <<<<"1">>, <<"a">>>>>>,
   <<<<ID_HEADER, NameCol, QuizCol>>, <<>>, LastMetaRow,
     <<<<"1">>, <<"a">>, <<>>>>, <<<<"2">>, <<"a">>, <<"x">>>>>>}
(* the index file of a run: absent, or with the quiz's column *)
MainMetaFiles ==
  {NoMetaFile,
   [exists |-> TRUE,
    quiz_list |-> <<[course_id |-> IdStr(<<"7">>), quiz_id |-> IdInt(<<"1">>),
                     gradebook_column |-> QuizCol]>>]}
(* a file left by an earlier run at the default output path *)
OldOutput == [exists |-> TRUE, rows |-> <<<<ID_HEADER>>>>, eol |-> "CRLF"]

InitMain ==
  /\ token \in Tokens
  /\ main_pc = "token"
  /\ quiz_response \in QuizResponses
  /\ submission_pages \in SubmissionChains
  /\ enrollment_pages \in EnrollmentChains
  /\ assignment_column_arg \in {NoneText, QuizCol, ColArg}
  /\ meta_file \in MainMetaFiles
  /\ mapping_file = NoMappingFile
  /\ gpc = "idle"
  /\ col = NoneText
  /\ csv_path = SrcPath
  /\ \E r \in MainExports, o \in {NoFile, OldOutput} :
       fs = [p \in AllPaths |->
               IF p = SrcPath THEN [exists |-> TRUE, rows |-> r, eol |-> "LF"]
               ELSE IF p = DefaultOut(SrcPath) THEN o
               ELSE NoFile]
  /\ fs_before = fs
  /\ out_arg \in {NoPath, OtherPath}
  /\ assignment_column = <<>>
  /\ user_grades = <<>>
  /\ ppc = "idle"
  /\ rows = <<>> /\ src_rows = <<>>
  /\ id_col = 0 /\ assign_col = 0
  /\ out_path = NoPath
  /\ run = 1
  /\ prev_out = <<>>

IdleMain ==
  /\ token = NoneText /\ main_pc = "idle"
  /\ quiz_response = NoQuizResponse
  /\ submission_pages = <<>> /\ enrollment_pages = <<>>

(* token = os.environ.get(...); if not token: raise SystemExit *)
CheckToken ==
  /\ main_pc = "token"
  /\ main_pc' = IF TokenMissing(token) THEN "fatal" ELSE "column"
  /\ UNCHANGED <<token, quiz_response, submission_pages, enrollment_pages>>
  /\ UNCHANGED <<resolveVars, patchVars, notMainVars>>

(* the call of get_assignment_column; CheckArg, ReadMetadata and           *)
(* ReadMapping are its steps, and its SystemExit ends the run              *)
CallGetAssignmentColumn ==
  /\ main_pc = "column" /\ gpc = "idle"
  /\ gpc' = "arg"
  /\ main_pc' = "resolving"
  /\ UNCHANGED <<token, quiz_response, submission_pages, enrollment_pages>>
  /\ UNCHANGED <<assignment_column_arg, meta_file, mapping_file, col>>
  /\ UNCHANGED <<patchVars, notMainVars>>

(* assignment_column = get_assignment_column(...), then                    *)
(* user_grades = build_user_grades(...): an exception is logged and raised *)
(* again; otherwise update_csv is called                                   *)
CallBuildUserGrades ==
  /\ main_pc = "resolving" /\ gpc = "returned"
  /\ LET g == BuildUserGrades(quiz_response, submission_pages, enrollment_pages)
     IN IF g.raised
          THEN /\ main_pc' = "fatal"
               /\ assignment_column' = col
               /\ UNCHANGED <<user_grades, ppc>>
          ELSE /\ main_pc' = "update"
               /\ assignment_column' = col
               /\ user_grades' = g.grades
               /\ ppc' = "read"
  /\ UNCHANGED <<token, quiz_response, submission_pages, enrollment_pages>>
  /\ UNCHANGED <<fs, fs_before, csv_path, out_arg, rows, src_rows, id_col,
                 assign_col, out_path, run, prev_out>>
  /\ UNCHANGED <<resolveVars, notMainVars>>

(* log(f"Wrote {out_path}") after update_csv has returned *)
LogWrote ==
  /\ main_pc = "update" /\ ppc = "done"
  /\ main_pc' = "done"
  /\ UNCHANGED <<token, quiz_response, submission_pages, enrollment_pages>>
  /\ UNCHANGED <<resolveVars, patchVars, notMainVars>>

NextMain ==
  \/ CheckToken
  \/ CallGetAssignmentColumn
  \/ CheckArg
  \/ ReadMetadata
  \/ ReadMapping
  \/ CallBuildUserGrades
  \/ ReadCsv
  \/ LocateColumns
  \/ PatchRows
  \/ WriteOut
  \/ LogWrote

(* ------------------------------------------------------------------------ *)
(* Properties of the attempt classifier                                     *)
(* ------------------------------------------------------------------------ *)
RosterIds == {enrollments[i].user : i \in 1..Len(enrollments)} \ {None}
BucketIds(b) == {b[i].user_id : i \in 1..Len(b)} \ {None}
(* the completion timestamps of the submission records of user u *)
SubTimes(u) == {quiz_subs[i].finished_at :
                  i \in {j \in 1..Len(quiz_subs) : quiz_subs[j].user_id = u}}
(* the students the report loop has already classified *)
Classified == {students[i] : i \in 1..(idx - 1)} \ {None}
RunEnded == cpc \in {"done", "failed"}

(* C1: once a run with a due timestamp has ended, every enrolled student   *)
(* identifier is in exactly one of the buckets on-time, late and           *)
(* not-attempted (is a key of the grade map), and no identifier absent     *)
(* from the roster is in any bucket or in the grade map.                   *)
C1_BucketsPartitionRoster ==
  (RunEnded /\ quiz_due_at # None) =>
    IF tool = "report"
      THEN \A u \in UserIds :
             LET n == Cardinality({b \in {"on_time", "late", "not_attempted"} :
                         u \in BucketIds(CASE b = "on_time" -> on_time
                                            [] b = "late" -> late
                                            [] OTHER -> not_attempted)})
             IN IF u \in RosterIds THEN n = 1 ELSE n = 0
      ELSE DOMAIN grades = RosterIds

(* C2: a classified student whose submission has completion timestamp t is *)
(* on-time (grade "1.00") iff t <= due and late (grade "0.00") iff         *)
(* t > due, in the report and in build_user_grades.                        *)
C2_OnTimeIffNotAfterDue ==
  /\ tool = "report" =>
       \A u \in Classified : \A t \in Times :
         SubTimes(u) = {t} =>
           /\ u \in BucketIds(on_time) <=> t <= quiz_due_at
           /\ u \in BucketIds(late) <=> t > quiz_due_at
           /\ u \notin BucketIds(not_attempted)
  /\ (tool = "grades" /\ cpc = "done") =>
       \A u \in RosterIds : \A t \in Times :
         SubTimes(u) = {t} =>
           /\ u \in DOMAIN grades
           /\ grades[u] = GRADE_ON_TIME <=> t <= quiz_due_at
           /\ grades[u] = GRADE_LATE_OR_NOT <=> t > quiz_due_at

(* a finished report with a student completing exactly at the due time in  *)
(* on-time and one completing one second later in late *)
C2_Witness ==
  /\ tool = "report" /\ cpc = "done"
  /\ \E i \in 1..Len(on_time) : on_time[i].finished_at = quiz_due_at
  /\ \E i \in 1..Len(late) : late[i].finished_at = quiz_due_at + 1

(* C3: in both paths a run with a due timestamp never ends in an error,    *)
(* and an enrolled student with no submission record, or with a record     *)
(* that has no completion timestamp, is classified not-attempted (grade    *)
(* "0.00").                                                                *)
C3_NoCompletionIsNotAttempted ==
  quiz_due_at # None =>
    /\ cpc # "failed"
    /\ tool = "report" =>
         \A u \in Classified :
           (SubTimes(u) \subseteq {None}) => u \in BucketIds(not_attempted)
    /\ (tool = "grades" /\ cpc = "done") =>
         \A u \in RosterIds :
           (SubTimes(u) \subseteq {None}) =>
             u \in DOMAIN grades /\ grades[u] = GRADE_LATE_OR_NOT

(* ------------------------------------------------------------------------ *)
(* Properties of the gradebook patcher                                      *)
(* ------------------------------------------------------------------------ *)
(* the integer an ID cell of the exports stands for, 0 when it is blank or *)
(* not a number: written out cell by cell, apart from the code's parsing   *)
CellInt(cell) ==
  CASE cell = <<" ", "1", " ">> -> 1
    [] cell = <<"1">> -> 1
    [] cell = <<"2">> -> 2
    [] cell = <<"+", "2">> -> 2
    [] cell = <<"3">> -> 3
    [] OTHER -> 0
(* the rows of the file the finished run has written *)
Written == fs[out_path].rows

(* C4: every cell of the output that differs from the source is the        *)
(* target-column cell of a row at index >= 3 that holds both the ID and    *)
(* the target column and whose ID cell is an integer of the grade map;     *)
(* the number of rows and their lengths are those of the source.           *)
C4_OnlyTargetCellsChange ==
  ppc = "done" =>
    /\ Len(Written) = Len(src_rows)
    /\ \A i \in 1..Len(src_rows) : Len(Written[i]) = Len(src_rows[i])
    /\ \E c, t \in 1..Len(src_rows[1]) :
         /\ src_rows[1][c] = ID_HEADER
         /\ \A k \in 1..(c - 1) : src_rows[1][k] # ID_HEADER
         /\ src_rows[1][t] = assignment_column
         /\ \A k \in 1..(t - 1) : src_rows[1][k] # assignment_column
         /\ \A i \in 1..Len(src_rows) : \A j \in 1..Len(src_rows[i]) :
              Written[i][j] # src_rows[i][j] =>
                /\ i - 1 >= 3
                /\ j = t
                /\ Len(src_rows[i]) >= c /\ Len(src_rows[i]) >= t
                /\ CellInt(src_rows[i][c]) \in DOMAIN user_grades

(* a finished run that has changed one data row and left a ragged data row *)
(* and a row with a blank or non-numeric ID as they were                   *)
C4_Witness ==
  /\ ppc = "done" /\ Len(src_rows) = 3 + MaxDataRows
  /\ \E i, k \in 4..Len(src_rows) :
       /\ Written[i] # src_rows[i]
       /\ Written[k] = src_rows[k]
       /\ \/ Len(src_rows[k]) < Len(src_rows[1])
          \/ CellInt(src_rows[k][1]) = 0

(* C5: running update_csv on its own output with the same grade map writes *)
(* rows equal to that output.                                              *)
C5_PatchIdempotent ==
  (run = 2 /\ ppc = "done") => Written = prev_out

(* a finished second run over an output whose first run changed a row *)
C5_Witness ==
  /\ run = 2 /\ ppc = "done"
  /\ fs[SrcPath].rows # prev_out
  /\ fs[SrcPath].rows # <<>>

(* C6: a finished run has written a file other than the source CSV and the *)
(* source CSV's content is what it was before the run.                     *)
C6_SourceNeverModified ==
  ppc = "done" => (out_path # csv_path /\ fs[csv_path] = fs_before[csv_path])

(* ------------------------------------------------------------------------ *)
(* Properties of the column resolver                                        *)
(* ------------------------------------------------------------------------ *)
Resolved == gpc \in {"returned", "exit"}
ArgGiven == assignment_column_arg \notin {NoneText, <<>>}
(* the positions of the index entries for the course and quiz of the run *)
IndexHits ==
  {i \in 1..Len(meta_file.quiz_list) :
     /\ meta_file.quiz_list[i].course_id.text = <<"7">>
     /\ meta_file.quiz_list[i].quiz_id.text = <<"1">>}
HasColumn(i) == meta_file.quiz_list[i].gradebook_column \notin {NoneText, <<>>}
FirstHit == CHOOSE i \in IndexHits : \A j \in IndexHits : i <= j
(* the manual mapping's column for the course and quiz, <<>> when none *)
ManualColumn ==
  IF /\ mapping_file.exists
     /\ <<"7">> \in DOMAIN mapping_file.mapping
     /\ <<"1">> \in DOMAIN mapping_file.mapping[<<"7">>]
  THEN mapping_file.mapping[<<"7">>][<<"1">>]
  ELSE <<>>
FromManualOrFatal ==
  IF ManualColumn # <<>> THEN gpc = "returned" /\ col = ManualColumn
  ELSE gpc = "exit"

(* C7 as stated: the caller's column when given; otherwise the gradebook   *)
(* column of an index entry for (course, quiz) whenever the index holds    *)
(* such an entry with a non-empty column; otherwise the manual mapping     *)
(* entry; a fatal error exactly when none of the three yields a column.    *)
C7_FirstHitWins ==
  Resolved =>
    IF ArgGiven THEN gpc = "returned" /\ col = assignment_column_arg
    ELSE IF \E i \in IndexHits : HasColumn(i)
      THEN /\ gpc = "returned"
           /\ \E i \in IndexHits :
                HasColumn(i) /\ col = meta_file.quiz_list[i].gradebook_column
    ELSE FromManualOrFatal

(* C7 amended: the index yields a column only through its first entry for  *)
(* (course, quiz): when that entry has a non-empty gradebook column it is  *)
(* returned, and when it has none the resolver goes on to the manual       *)
(* mapping whatever later entries for the same (course, quiz) hold.        *)
C7_FirstEntryDecides ==
  Resolved =>
    IF ArgGiven THEN gpc = "returned" /\ col = assignment_column_arg
    ELSE IF IndexHits # {} /\ HasColumn(FirstHit)
      THEN /\ gpc = "returned"
           /\ col = meta_file.quiz_list[FirstHit].gradebook_column
    ELSE FromManualOrFatal

(* a resolved run whose index holds two entries for the quiz, the first    *)
(* without a column and the second with one, answered from the mapping     *)
C7_Witness ==
  /\ gpc = "returned" /\ ~ArgGiven
  /\ Cardinality(IndexHits) = 2
  /\ ~HasColumn(FirstHit)
  /\ \E i \in IndexHits : HasColumn(i)
  /\ col = ManualColumn

(* ------------------------------------------------------------------------ *)
(* Properties of the suggestion tool                                        *)
(* ------------------------------------------------------------------------ *)
(* the candidate positions whose header satisfies the match predicate for  *)
(* quiz k: normalized substring either way, or the 10-character prefix of  *)
(* one inside the other when both are non-empty                            *)
Satisfying(k) ==
  LET t == Normalize(IF quizzes[k].quiz_title = NoneText THEN <<>>
                     ELSE quizzes[k].quiz_title)
  IN {i \in 1..Len(assignment_headers) :
        LET h == Normalize(assignment_headers[i].header)
        IN \/ IsSubstring(t, h) \/ IsSubstring(h, t)
           \/ /\ t # <<>> /\ h # <<>>
              /\ \/ IsSubstring(SubSeq(t, 1, IF Len(t) < 10 THEN Len(t) ELSE 10), h)
                 \/ IsSubstring(SubSeq(h, 1, IF Len(h) < 10 THEN Len(h) ELSE 10), t)}
HeaderAt(i) == assignment_headers[i].header

(* C10: for every quiz the loop has handled, the suggestion is the longest *)
(* candidate header among those satisfying the match predicate, the first  *)
(* in header-row order among those of that length, and there is no entry   *)
(* for the quiz when no candidate satisfies the predicate.                 *)
C10_LongestFirstSeen ==
  \A k \in 1..(qn - 1) :
    LET M == Satisfying(k)
        qid == quizzes[k].quiz_id
    IN IF M = {} THEN qid \notin DOMAIN suggestions
       ELSE /\ qid \in DOMAIN suggestions
            /\ \E i \in M :
                 /\ suggestions[qid] = HeaderAt(i)
                 /\ \A j \in M : Len(HeaderAt(j)) <= Len(HeaderAt(i))
                 /\ \A j \in M : Len(HeaderAt(j)) = Len(HeaderAt(i)) => i <= j
                 /\ \A j \in M : j < i => HeaderAt(j) # HeaderAt(i)

(* a finished run with a quiz whose two longest satisfying headers differ  *)
(* and have the same length, and a quiz that no candidate satisfies        *)
C10_Witness ==
  /\ spc = "done"
  /\ \E k \in 1..Len(quizzes) : Satisfying(k) = {} /\ assignment_headers # <<>>
  /\ \E k \in 1..Len(quizzes) : \E i, j \in Satisfying(k) :
       /\ i < j /\ HeaderAt(i) # HeaderAt(j)
       /\ Len(HeaderAt(i)) = Len(HeaderAt(j))
       /\ suggestions[quizzes[k].quiz_id] = HeaderAt(i)

(* ------------------------------------------------------------------------ *)
(* Properties of the merge                                                  *)
(* ------------------------------------------------------------------------ *)
Wrote(name) == \E i \in 1..Len(writes) : writes[i] = name

(* C8: the mapping file is never written without --write, and whenever an  *)
(* existing mapping file has been overwritten the backup was written       *)
(* before it and the backup's content is the mapping file's content from   *)
(* before the merge.                                                       *)
C8_BackupBeforeMerge ==
  /\ ~write_flag => (~Wrote("mapping") /\ mapping_disk = mapping_before)
  /\ (mapping_before.exists /\ Wrote("mapping")) =>
       /\ writes = <<"backup", "mapping">>
       /\ backup_disk = mapping_before

(* ------------------------------------------------------------------------ *)
(* Properties of the paginated fetcher                                      *)
(* ------------------------------------------------------------------------ *)
HasNext(i) ==
  \E k \in 1..Len(pages[i].link.parts) : pages[i].link.parts[k].rel = "next"
(* the first page that carries no next link: the end of the chain *)
ChainEnd == CHOOSE m \in 1..Len(pages) : ~HasNext(m) /\ \A i \in 1..(m - 1) : HasNext(i)
RECURSIVE Primaries(_)
(* the primary entities of pages 1..k, page after page *)
Primaries(k) == IF k = 0 THEN <<>> ELSE Primaries(k - 1) \o pages[k].body.entities

(* C9: the requests made so far are pages 1, 2, ... of the chain, each     *)
(* once and in order, the initial params go with the first request only,   *)
(* the data gathered is the concatenation of those pages' primary          *)
(* entities, the loop goes on while the last response has a next link and  *)
(* returns right after the first response without one.                     *)
C9_AllPagesInOrder ==
  (fpc \in {"loop", "done"}) =>
    LET k == Len(requests)
    IN /\ k <= ChainEnd
       /\ \A i \in 1..k : requests[i].url = i
       /\ \A i \in 2..k : requests[i].params = NoParams
       /\ k >= 1 => (requests[1].params = initial_params /\ params = NoParams)
       /\ all_data = Primaries(k)
       /\ (k >= 1 /\ k < ChainEnd) => (fpc = "loop" /\ url = k + 1)
       /\ fpc = "done" => k = ChainEnd

(* a returned fetch over a chain of MaxPages pages that ends before the    *)
(* server's last page, started with query parameters                       *)
C9_Witness ==
  /\ fpc = "done"
  /\ Len(requests) >= 2 /\ Len(requests) < Len(pages)
  /\ requests[1].params = InitialParams
  /\ all_data # <<>>

(* ------------------------------------------------------------------------ *)
(* Properties of update_gradebook_csv.main                                  *)
(* ------------------------------------------------------------------------ *)
(* the run has ended in a SystemExit or an exception *)
MainFatal == main_pc = "fatal" \/ gpc = "exit" \/ ppc = "failed"
(* some file of the run differs from what it was at the start *)
SomethingWritten == fs # fs_before
InHeader(name) ==
  /\ fs_before[SrcPath].rows # <<>>
  /\ \E i \in 1..Len(fs_before[SrcPath].rows[1]) :
       fs_before[SrcPath].rows[1][i] = name
(* every page of a listing has a 2xx status and a body of a shape the     *)
(* listing is specified to have                                           *)
PagesWellFormed(chain, shapes) ==
  \A i \in 1..Len(chain) :
    chain[i].status = "ok" /\ chain[i].body.shape \in shapes
(* every fatal condition of the run is absent *)
ChecksPassed ==
  /\ token \notin {NoneText, <<>>}
  /\ gpc = "returned"
  /\ quiz_response.status = "ok" /\ quiz_response.due_at # None
  /\ PagesWellFormed(submission_pages, {"list", "composite"})
  /\ PagesWellFormed(enrollment_pages, {"list"})
  /\ InHeader(ID_HEADER) /\ InHeader(col)

(* C11: a run of update_gradebook_csv that has ended in a fatal error has  *)
(* written no file; a file is written only in a run in which the token is  *)
(* set, the column resolved, the due timestamp present, every page         *)
(* response successful and well-formed, the CSV non-empty and both columns *)
(* in its header, and then the output file holds every row of the export.  *)
C11_FatalWritesNothing ==
  /\ MainFatal => ~SomethingWritten
  /\ SomethingWritten =>
       /\ ChecksPassed
       /\ fs[out_path] = WriteCsv(rows)
       /\ Len(rows) = Len(fs_before[SrcPath].rows)
       /\ \A p \in AllPaths \ {out_path} : fs[p] = fs_before[p]

(* ------------------------------------------------------------------------ *)
(* Order of the submissions list and of the roster                          *)
(* ------------------------------------------------------------------------ *)
(* every reordering of a list *)
Perms(q) ==
  {[i \in 1..Len(q) |-> q[f[i]]] : f \in Permutations(1..Len(q))}
(* the reorderings of a submissions list that keep the records of each     *)
(* student in the order they had                                           *)
StudentOrderPerms(q) ==
  {[i \in 1..Len(q) |-> q[f[i]]] :
     f \in {g \in Permutations(1..Len(q)) :
              \A i, j \in 1..Len(q) :
                (i < j /\ q[g[i]].user_id = q[g[j]].user_id) => g[i] < g[j]}}
(* the record of student u that comes last in the list ps *)
LastRecordOf(ps, u) ==
  LET I == {i \in 1..Len(ps) : ps[i].user_id = u}
  IN IF I = {} THEN NoSub ELSE ps[CHOOSE i \in I : \A j \in I : j <= i]
(* the bucket the classifier is specified to give student u for the list   *)
(* ps; "no_completion" is a record without a completion timestamp          *)
ExpectedBucket(ps, u, due) ==
  LET r == LastRecordOf(ps, u)
  IN IF r = NoSub THEN "not_attempted"
     ELSE IF r.finished_at = None THEN "no_completion"
     ELSE IF r.finished_at <= due THEN "on_time"
     ELSE "late"
ExpectedGrade(ps, u, due) ==
  IF ExpectedBucket(ps, u, due) = "on_time" THEN GRADE_ON_TIME
  ELSE GRADE_LATE_OR_NOT
(* the buckets of the report that hold student u *)
BucketsOf(u) ==
  {b \in {"on_time", "late", "not_attempted"} :
     u \in BucketIds(CASE b = "on_time" -> on_time
                       [] b = "late" -> late
                       [] OTHER -> not_attempted)}
(* the run is past its due timestamp and has ended, in its results or in   *)
(* the report's error on a record without a completion timestamp           *)
ClassificationEnded == cpc = "done" \/ (cpc = "failed" /\ due_dt # None)
(* the results of the ended run are those specified for every reordering   *)
(* ps of the submissions among P and every reordering of the roster        *)
SameForAll(P) ==
  ClassificationEnded =>
    \A ps \in P, pe \in Perms(enrollments) :
      LET roster == {pe[i].user : i \in 1..Len(pe)} \ {None}
      IN IF tool = "grades"
           THEN grades = [u \in roster |-> ExpectedGrade(ps, u, due_dt)]
         ELSE IF \E u \in roster : ExpectedBucket(ps, u, due_dt) = "no_completion"
           THEN cpc = "failed"
         ELSE /\ cpc = "done"
              /\ \A u \in roster : BucketsOf(u) = {ExpectedBucket(ps, u, due_dt)}

(* C12 as stated: the grade map and the bucket of every student are the    *)
(* same for every permutation of the submissions list and of the roster,   *)
(* several records of one student allowed.                                 *)
C12_AnyOrder == SameForAll(Perms(quiz_subs))

(* C12, amended: the grade map and the outcome of the report (the bucket   *)
(* of every student, or the report's error) are the same for every         *)
(* permutation of the roster and every permutation of the submissions      *)
(* list that keeps the records of each student in their order; among the   *)
(* records of one student the last one decides.                            *)
C12_StudentOrderKept == SameForAll(StudentOrderPerms(quiz_subs))

(* an ended report over two records of two students in two buckets, and a  *)
(* grade map over two records of one student with different outcomes       *)
C12_Witness ==
  /\ cpc = "done"
  /\ Len(quiz_subs) = 2 /\ RosterIds = {1, 2}
  /\ \/ /\ tool = "report"
        /\ quiz_subs[1].user_id # quiz_subs[2].user_id
        /\ BucketsOf(1) = {"on_time"} /\ BucketsOf(2) = {"late"}
     \/ /\ tool = "grades"
        /\ quiz_subs[1].user_id = 1 /\ quiz_subs[2].user_id = 1
        /\ quiz_subs[1].finished_at > due_dt
        /\ quiz_subs[2].finished_at # None /\ quiz_subs[2].finished_at <= due_dt
        /\ grades[1] = GRADE_ON_TIME

(* ------------------------------------------------------------------------ *)
(* Specifications: one per tool                                             *)
(* ------------------------------------------------------------------------ *)
InitClassifySpec ==
  InitClassify /\ IdlePatch /\ IdleResolve /\ IdleSuggest /\ IdleMerge /\ IdleFetch
  /\ IdleMain
SpecClassify == InitClassifySpec /\ [][NextClassify]_vars
InitPatchSpec ==
  InitPatch /\ IdleClassify /\ IdleResolve /\ IdleSuggest /\ IdleMerge /\ IdleFetch
  /\ IdleMain
SpecPatch == InitPatchSpec /\ [][NextPatch]_vars
InitResolveSpec ==
  InitResolve /\ IdleClassify /\ IdlePatch /\ IdleSuggest /\ IdleMerge /\ IdleFetch
  /\ IdleMain
SpecResolve == InitResolveSpec /\ [][NextResolve]_vars
InitSuggestSpec ==
  InitSuggest /\ IdleClassify /\ IdlePatch /\ IdleResolve /\ IdleMerge /\ IdleFetch
  /\ IdleMain
SpecSuggest == InitSuggestSpec /\ [][NextSuggest]_vars
InitMergeSpec ==
  InitMerge /\ IdleClassify /\ IdlePatch /\ IdleResolve /\ IdleSuggestLoop /\ IdleFetch
  /\ IdleMain
SpecMerge == InitMergeSpec /\ [][NextMerge]_vars
InitFetchSpec ==
  InitFetch /\ IdleClassify /\ IdlePatch /\ IdleResolve /\ IdleSuggest /\ IdleMerge
  /\ IdleMain
SpecFetch == InitFetchSpec /\ [][NextFetch]_vars
InitMainSpec == InitMain /\ IdleClassify /\ IdleSuggest /\ IdleMerge /\ IdleFetch
SpecMain == InitMainSpec /\ [][NextMain]_vars

====
